---- MODULE Spec2Model ----
(***************************************************************************)
(* environ_config: to_config / _to_config (src/src/environ/                *)
(* _environ_config.py) and the secret providers INISecrets,                *)
(* VaultEnvSecrets and _SecretStr (src/src/environ/secrets.py).            *)
(*                                                                         *)
(* Python strings are sequences of one-character strings, so that          *)
(* "_".join(...), .upper() and the INI parser's option lower-casing are    *)
(* computed and not assumed.  Python values are records [t, s]: t is the   *)
(* Python type, s the characters (empty for RAISE and None).               *)
(***************************************************************************)
EXTENDS Integers, Sequences, FiniteSets, TLC

VARIABLES
    ini,        \* the INISecrets instance: section, _cfg, _env_name, _env_default
    vault,      \* the VaultEnvSecrets instance: vault_prefix
    schema,     \* to_config's config_cls: the classes reachable from it
    environ,    \* to_config's environ argument
    stack,      \* the activation records of _to_config, innermost last
    result,     \* how the running / last to_config call stands
    probes,     \* the log.debug lines of the pass: which key each lookup probed
    loads,      \* calls of _load_ini made by the INISecrets instance so far
    started,    \* the INISecrets instance as it was when the pass began
    frames,     \* co_names of the Python frames below a repr() call
    shown       \* what the last repr() call produced

vars == <<ini, vault, schema, environ, stack, result, probes, loads, started, frames, shown>>

(***************************************************************************)
(* Strings                                                                 *)
(***************************************************************************)
LowerChars == <<"a", "p", "g", "h", "x", "y", "n", "m", "s">>
UpperChars == <<"A", "P", "G", "H", "X", "Y", "N", "M", "S">>

IndexOf(c, seq) == CHOOSE i \in 1..Len(seq) : seq[i] = c

InSeq(c, seq) == \E i \in 1..Len(seq) : seq[i] = c

\* str.upper(), one character
UpperChar(c) == IF InSeq(c, LowerChars) THEN UpperChars[IndexOf(c, LowerChars)] ELSE c

\* str.lower(), one character
LowerChar(c) == IF InSeq(c, UpperChars) THEN LowerChars[IndexOf(c, UpperChars)] ELSE c

Upper(s) == [i \in 1..Len(s) |-> UpperChar(s[i])]

Lower(s) == [i \in 1..Len(s) |-> LowerChar(s[i])]

\* "_".join(parts), parts a tuple of strings
RECURSIVE Join(_)
Join(parts) ==
    IF Len(parts) = 0 THEN <<>>
    ELSE IF Len(parts) = 1 THEN parts[1]
    ELSE parts[1] \o <<"_">> \o Join(Tail(parts))

(***************************************************************************)
(* Values                                                                  *)
(***************************************************************************)
RAISE == [t |-> "Raise", s |-> <<>>]
None == [t |-> "NoneType", s |-> <<>>]
Str(s) == [t |-> "str", s |-> s]
IntOf(s) == [t |-> "int", s |-> s]

\* _SecretStr(val): str.__new__ takes str(val); str(None) is the text None
NoneText == <<"N", "o", "n", "e">>
SecretStr(val) == [t |-> "_SecretStr", s |-> IF val.t = "NoneType" THEN NoneText ELSE val.s]

IsStr(v) == v.t \in {"str", "_SecretStr"}

\* Python ==: a _SecretStr compares as the str it extends
PyEq(a, b) == IF IsStr(a) /\ IsStr(b) THEN a.s = b.s ELSE a = b

(***************************************************************************)
(* Errors: the exception that ends a pass, with its argument               *)
(***************************************************************************)
NoError == [type |-> "", arg |-> <<>>]
Error(type, arg) == [type |-> type, arg |-> arg]

(***************************************************************************)
(* Schema: config classes, var() / group() / secret() attributes           *)
(***************************************************************************)
NoClass == 0

\* _ConfigEntry(name, default, sub_cls, callback)
ConfigEntry(name, default, sub_cls, callback) ==
    [name |-> name, default |-> default, sub_cls |-> sub_cls, callback |-> callback]

\* var(default, convert, name): an attr.ib with the entry in its metadata
var(attrname, default, convert, name) ==
    [name |-> attrname,
     ce |-> ConfigEntry(name, default, NoClass, "None"),
     section |-> <<>>,
     converter |-> convert]

\* group(cls): no converter, the entry carries the nested class
group(attrname, cls) ==
    [name |-> attrname,
     ce |-> ConfigEntry(None, None, cls, "True"),
     section |-> <<>>,
     converter |-> "None"]

\* INISecrets.secret / VaultEnvSecrets.secret build their entry as
\* _ConfigEntry(name, default, None, self._get, help): five positional
\* arguments for a class of four attributes, which Python refuses.
ConfigEntryAttrs == 4
SecretEntryArgs == 5
secret == IF SecretEntryArgs > ConfigEntryAttrs THEN "TypeError" ELSE "attr.ib"

\* The attribute a provider's _get is handed: attr.ib(default, metadata,
\* converter) whose entry names the provider's _get as callback; an INI
\* secret's metadata also carries _INIConfig(section).
secret_attrib(attrname, provider, default, converter, name, section) ==
    [name |-> attrname,
     ce |-> ConfigEntry(name, default, NoClass, provider),
     section |-> section,
     converter |-> converter]

\* @config(prefix=...): the class with its _prefix and its attr.fields, in order
ConfigClass(prefix, fields) == [prefix |-> prefix, fields |-> fields]

\* config()'s default prefix
DefaultPrefix == <<"A", "P", "P">>

(***************************************************************************)
(* The environment mapping and the INI files                               *)
(***************************************************************************)
\* environ.get(key, default)
EnvGet(env, key, default) == IF key \in DOMAIN env THEN env[key] ELSE default

Item(section, option, value) == [section |-> section, option |-> option, value |-> value]

\* _cfg is None
NoCfg == [loaded |-> FALSE, sections |-> {}, items |-> {}]

\* RawConfigParser.read_file: option names go through optionxform (str.lower)
ReadFile(file) ==
    [loaded |-> TRUE,
     sections |-> file.sections,
     items |-> {Item(it.section, Lower(it.option), it.value) : it \in file.items}]

\* _load_ini(path) on the file system fs: codecs.open refuses None and a
\* path that names no file
LoadIni(fs, path) ==
    IF path.t = "NoneType" THEN [ok |-> FALSE, cfg |-> NoCfg, err |-> Error("TypeError", <<>>)]
    ELSE IF path.s \notin DOMAIN fs THEN [ok |-> FALSE, cfg |-> NoCfg, err |-> Error("IOError", path.s)]
    ELSE [ok |-> TRUE, cfg |-> ReadFile(fs[path.s]), err |-> NoError]

\* RawConfigParser.get(section, option)
CfgGet(cfg, section, option) ==
    IF ~cfg.loaded THEN [ok |-> FALSE, val |-> None, err |-> Error("AttributeError", <<>>)]
    ELSE IF section \notin cfg.sections
        THEN [ok |-> FALSE, val |-> None, err |-> Error("NoSectionError", section)]
    ELSE IF \E it \in cfg.items : it.section = section /\ it.option = Lower(option)
        THEN [ok |-> TRUE,
              val |-> Str((CHOOSE it \in cfg.items :
                              it.section = section /\ it.option = Lower(option)).value),
              err |-> NoError]
    ELSE [ok |-> FALSE, val |-> None, err |-> Error("NoOptionError", option)]

(***************************************************************************)
(* The three lookups.  Each returns [ok, val, err, key]: the value, or the *)
(* exception raised, and the key it looked for.                            *)
(***************************************************************************)
\* to_config: app_prefix, from the _prefix of the class it is called with
AppPrefix(config_cls) == IF config_cls.prefix # <<>> THEN <<config_cls.prefix>> ELSE <<>>

\* faulty variant of DefaultVar: the join is not upper-cased
DefaultVarNoUpper(app_prefix, ce, prefix, name) ==
    IF ce.name # None THEN ce.name.s
    ELSE Join(app_prefix \o prefix \o <<name>>)

\* default_get: the name of the environment variable
DefaultVar(app_prefix, ce, prefix, name) ==
    IF ce.name # None THEN ce.name.s
    ELSE Upper(Join(app_prefix \o prefix \o <<name>>))

\* faulty variant of DefaultLookup: a declared default is preferred to the environment
DefaultLookupDefaultFirst(env, key, default) ==
    LET val == IF default # RAISE THEN default ELSE EnvGet(env, key, default)
    IN  IF val = RAISE
        THEN [ok |-> FALSE, val |-> None, err |-> Error("MissingEnvValueError", key), key |-> key]
        ELSE [ok |-> TRUE, val |-> val, err |-> NoError, key |-> key]

\* faulty variant of DefaultLookup: "if not val" in place of "if val is RAISE"
DefaultLookupFalsy(env, key, default) ==
    LET val == EnvGet(env, key, default)
    IN  IF val \in {RAISE, None, Str(<<>>)}
        THEN [ok |-> FALSE, val |-> None, err |-> Error("MissingEnvValueError", key), key |-> key]
        ELSE [ok |-> TRUE, val |-> val, err |-> NoError, key |-> key]

\* default_get: environ.get(key, ce.default), RAISE meaning no value
DefaultLookup(env, key, default) ==
    LET val == EnvGet(env, key, default)
    IN  IF val = RAISE
        THEN [ok |-> FALSE, val |-> None, err |-> Error("MissingEnvValueError", key), key |-> key]
        ELSE [ok |-> TRUE, val |-> val, err |-> NoError, key |-> key]

default_get(app_prefix, env, field, prefix) ==
    DefaultLookup(env, DefaultVar(app_prefix, field.ce, prefix, field.name), field.ce.default)

\* faulty variant of DelayedLoad: the file is loaded again at every lookup
DelayedLoadEveryTime(self, fs, env) ==
    IF self.env_name # None
    THEN LET r == LoadIni(fs, EnvGet(env, self.env_name.s, self.env_default))
         IN  [attempt |-> TRUE, ok |-> r.ok, cfg |-> r.cfg, err |-> r.err]
    ELSE [attempt |-> FALSE, ok |-> TRUE, cfg |-> self.cfg, err |-> NoError]

\* faulty variant of DelayedLoad: a load that raises leaves an empty parser behind
DelayedLoadLeavesEmpty(self, fs, env) ==
    IF ~self.cfg.loaded /\ self.env_name # None
    THEN LET r == LoadIni(fs, EnvGet(env, self.env_name.s, self.env_default))
         IN  [attempt |-> TRUE, ok |-> r.ok,
              cfg |-> IF r.ok THEN r.cfg ELSE [NoCfg EXCEPT !.loaded = TRUE],
              err |-> r.err]
    ELSE [attempt |-> FALSE, ok |-> TRUE, cfg |-> self.cfg, err |-> NoError]

\* INISecrets._get, delayed loading: [attempt, ok, cfg, err]
DelayedLoad(self, fs, env) ==
    IF ~self.cfg.loaded /\ self.env_name # None
    THEN LET r == LoadIni(fs, EnvGet(env, self.env_name.s, self.env_default))
         IN  [attempt |-> TRUE, ok |-> r.ok, cfg |-> r.cfg, err |-> r.err]
    ELSE [attempt |-> FALSE, ok |-> TRUE, cfg |-> self.cfg, err |-> NoError]

\* INISecrets._get: the option name
INIVar(ce, prefix, name) ==
    IF ce.name # None THEN ce.name.s
    ELSE Join(prefix \o <<name>>)

\* INISecrets._get: the lookup in the parsed file; only NoOptionError is caught
INILookup(cfg, section, key, default) ==
    LET r == CfgGet(cfg, section, key)
    IN  IF r.ok THEN [ok |-> TRUE, val |-> SecretStr(r.val), err |-> NoError, key |-> key]
        ELSE IF r.err.type = "NoOptionError"
            THEN IF default # RAISE
                 THEN [ok |-> TRUE, val |-> default, err |-> NoError, key |-> key]
                 ELSE [ok |-> FALSE, val |-> None, err |-> Error("MissingSecretError", key),
                       key |-> key]
        ELSE [ok |-> FALSE, val |-> None, err |-> r.err, key |-> key]

INI_get(cfg, field, prefix) ==
    INILookup(cfg, field.section, INIVar(field.ce, prefix, field.name), field.ce.default)

\* VaultEnvSecrets._get: vault_prefix, called with environ when it is callable
VaultPrefix(self, env) ==
    IF self.callable THEN EnvGet(env, self.reads, Str(self.vault_prefix)).s
    ELSE self.vault_prefix

\* faulty variant of VaultVar: the explicit name goes through the prefixing too
VaultVarPrefixed(vp, ce, prefix, name) ==
    IF ce.name # None THEN Upper(Join(<<vp, ce.name.s>>))
    ELSE Upper(Join(<<vp>> \o prefix \o <<name>>))

\* VaultEnvSecrets._get: the name of the environment variable
VaultVar(vp, ce, prefix, name) ==
    IF ce.name # None THEN ce.name.s
    ELSE Upper(Join(<<vp>> \o prefix \o <<name>>))

\* VaultEnvSecrets._get: environ.get(key, ce.default), wrapped whatever it is
VaultLookup(env, key, default) ==
    LET val == EnvGet(env, key, default)
    IN  IF val = RAISE
        THEN [ok |-> FALSE, val |-> None, err |-> Error("MissingSecretError", key), key |-> key]
        ELSE [ok |-> TRUE, val |-> SecretStr(val), err |-> NoError, key |-> key]

Vault_get(self, env, field, prefix) ==
    VaultLookup(env, VaultVar(VaultPrefix(self, env), field.ce, prefix, field.name),
                field.ce.default)

(***************************************************************************)
(* attrs: the generated __init__ runs each attribute's converter, in order *)
(***************************************************************************)
Digits == {"1"}

\* the converter of a leaf: none, or int (on the texts of this model: digits
\* give the number, anything else raises ValueError, None raises TypeError)
Convert(converter, v) ==
    IF converter = "None" THEN [ok |-> TRUE, val |-> v, err |-> NoError]
    ELSE IF v.t = "int" THEN [ok |-> TRUE, val |-> v, err |-> NoError]
    ELSE IF ~IsStr(v) THEN [ok |-> FALSE, val |-> None, err |-> Error("TypeError", v.s)]
    ELSE IF Len(v.s) > 0 /\ \A i \in 1..Len(v.s) : v.s[i] \in Digits
        THEN [ok |-> TRUE, val |-> IntOf(v.s), err |-> NoError]
    ELSE [ok |-> FALSE, val |-> None, err |-> Error("ValueError", v.s)]

\* one attribute of an instance: a leaf's value, or a group's nested instance
Entry(name, v, sub) == [name |-> name, v |-> v, sub |-> sub]

\* faulty variant of FirstBadConvert: the converters run last attribute first
LastBadConvert(fields, vals) ==
    IF \E i \in 1..Len(fields) : ~Convert(fields[i].converter, vals[i].v).ok
    THEN CHOOSE i \in 1..Len(fields) :
            /\ ~Convert(fields[i].converter, vals[i].v).ok
            /\ \A j \in (i + 1)..Len(fields) : Convert(fields[j].converter, vals[j].v).ok
    ELSE 0

\* index of the first attribute whose converter raises, 0 when none does
FirstBadConvert(fields, vals) ==
    IF \E i \in 1..Len(fields) : ~Convert(fields[i].converter, vals[i].v).ok
    THEN CHOOSE i \in 1..Len(fields) :
            /\ ~Convert(fields[i].converter, vals[i].v).ok
            /\ \A j \in 1..(i - 1) : Convert(fields[j].converter, vals[j].v).ok
    ELSE 0

\* config_cls(**vals) when no converter raises
Instance(fields, vals) ==
    [i \in 1..Len(fields) |->
        Entry(fields[i].name, Convert(fields[i].converter, vals[i].v).val, vals[i].sub)]

(***************************************************************************)
(* Inputs: the files on disk, the environments and the schemas of a pass   *)
(***************************************************************************)
X == <<"x">>
Y == <<"y">>
G == <<"g">>
H == <<"h">>
Nm == <<"N", "m">>
One == <<"1">>
Word == <<"a">>
Secrets == <<"s", "e", "c", "r", "e", "t", "s">>
Db == <<"d", "b">>
IniPathVar == <<"I", "N", "I">>
VaultPrefixVar == <<"V", "P">>
F0 == <<"f", "0">>
F1 == <<"f", "1">>
F2 == <<"f", "2">>
F3 == <<"f", "3">>

\* F1 holds every option a leaf of these schemas can ask for, F2 only some,
\* F3 has no [secrets] section, and no file is at F0
File1 ==
    [sections |-> {Secrets, Db},
     items |-> {Item(Secrets, X, One), Item(Secrets, Y, Word),
                Item(Secrets, <<"g", "_", "x">>, One),
                Item(Secrets, <<"g", "_", "h", "_", "y">>, One),
                Item(Secrets, Nm, One), Item(Db, Y, One)}]
File2 == [sections |-> {Secrets}, items |-> {Item(Secrets, X, Word)}]
File3 == [sections |-> {Db}, items |-> {Item(Db, X, One)}]
Files == (F1 :> File1) @@ (F2 :> File2) @@ (F3 :> File3)

XKeys == {<<"X">>, <<"G", "_", "X">>, <<"A", "P", "_", "X">>,
          <<"A", "P", "_", "G", "_", "X">>, <<"S", "_", "X">>, <<"S", "_", "G", "_", "X">>}
YKeys == {<<"Y">>, <<"G", "_", "H", "_", "Y">>, <<"A", "P", "_", "Y">>,
          <<"A", "P", "_", "G", "_", "H", "_", "Y">>, <<"S", "_", "Y">>,
          <<"S", "_", "G", "_", "H", "_", "Y">>}

EnvOf(keys, value, path) ==
    [k \in keys |-> Str(value)] @@ (IniPathVar :> Str(path))

EmptyEnv == [k \in {} |-> Str(<<>>)]

Environs ==
    {EmptyEnv,
     EnvOf(XKeys \cup YKeys \cup {Nm}, One, F1),
     EnvOf(XKeys \cup YKeys \cup {Nm, VaultPrefixVar}, Word, F2),
     EnvOf(XKeys, One, F3),
     EnvOf(YKeys \cup {Nm}, Word, F0)}

Defaults == {RAISE, None, Str(<<>>), Str(One)}
SecretDefaults == {RAISE, None, Str(One)}
Converters == {"None", "int"}
ExplicitNames == {None, Str(Nm)}

\* INISecrets.secret: section = self.section when none is given
SecretSection(self, section) == IF section = None THEN self.section ELSE section.s

\* every way to declare the leaf attrname, over the three providers
LeafDecls(self, attrname) ==
    {var(attrname, d, c, n) : d \in Defaults, c \in Converters, n \in ExplicitNames}
    \cup {secret_attrib(attrname, "ini", d, c, n, SecretSection(self, None)) :
            d \in SecretDefaults, c \in Converters, n \in ExplicitNames}
    \cup {secret_attrib(attrname, "vault", d, c, n, <<>>) :
            d \in SecretDefaults, c \in Converters, n \in ExplicitNames}

\* a few declarations, to pair with every declaration of the other leaf
FewDecls(self, attrname) ==
    {var(attrname, RAISE, "None", None),
     var(attrname, None, "int", Str(Nm)),
     secret_attrib(attrname, "ini", RAISE, "None", None, SecretSection(self, None)),
     secret_attrib(attrname, "ini", Str(One), "None", None, SecretSection(self, Str(Db))),
     secret_attrib(attrname, "vault", None, "None", None, <<>>)}

Ap == <<"a", "p">>

\* the classes of a schema, the root first: two leaves x and y, side by side,
\* x inside a group, or y two groups deep
Layouts == {<<"flat", <<>>>>, <<"group", Ap>>, <<"deep", <<>>>>, <<"deep", Ap>>}
SchemaOf(shape, prefix, lx, ly) ==
    IF shape = "flat" THEN <<ConfigClass(prefix, <<lx, ly>>)>>
    ELSE IF shape = "group"
        THEN <<ConfigClass(prefix, <<group(G, 2), ly>>), ConfigClass(DefaultPrefix, <<lx>>)>>
    ELSE <<ConfigClass(prefix, <<lx, group(G, 2)>>),
           ConfigClass(DefaultPrefix, <<group(H, 3)>>),
           ConfigClass(DefaultPrefix, <<ly>>)>>

Schemas(self) ==
    {SchemaOf(l[1], l[2], lx, ly) :
        l \in Layouts, lx \in LeafDecls(self, X), ly \in FewDecls(self, Y)}
    \cup {SchemaOf(l[1], l[2], lx, ly) :
        l \in Layouts, lx \in FewDecls(self, X), ly \in LeafDecls(self, Y)}

\* whether a leaf of the schema has the provider's _get as callback
Uses(cls, provider) ==
    \E c \in 1..Len(cls) : \E i \in 1..Len(cls[c].fields) :
        cls[c].fields[i].ce.callback = provider

\* INISecrets.from_path: the file is loaded at construction
from_path(path, section) ==
    [section |-> section, cfg |-> LoadIni(Files, Str(path)).cfg,
     env_name |-> None, env_default |-> None]

\* INISecrets.from_path_in_env: the file is loaded by the first lookup
from_path_in_env(env_name, default, section) ==
    [section |-> section, cfg |-> NoCfg, env_name |-> Str(env_name), env_default |-> default]

\* VaultEnvSecrets(vault_prefix): a string, or a function of environ (here
\* the value of an environment variable, a fixed text when it is not set)
VaultEnvSecrets(vault_prefix, callable) ==
    [vault_prefix |-> vault_prefix, callable |-> callable, reads |-> VaultPrefixVar]

INIProviders ==
    {from_path_in_env(IniPathVar, None, Secrets),
     from_path_in_env(IniPathVar, Str(F2), Secrets),
     from_path(F1, Secrets)}

VaultProviders == {VaultEnvSecrets(<<"s">>, FALSE), VaultEnvSecrets(<<"s">>, TRUE)}

\* a program: its providers and the schema declared with them; how a provider
\* no leaf uses was made does not matter, and one way stands for all
Programs ==
    {<<i, v, cls>> \in INIProviders \X VaultProviders \X Schemas(from_path(F1, Secrets)) :
        /\ Uses(cls, "ini") \/ i = from_path(F1, Secrets)
        /\ Uses(cls, "vault") \/ v = VaultEnvSecrets(<<"s">>, FALSE)}

(***************************************************************************)
(* State                                                                   *)
(***************************************************************************)
MaxLoads == 2

Idle == [status |-> "idle", inst |-> <<>>, err |-> NoError, at |-> <<>>, in |-> ""]

Init ==
    /\ \E p \in Programs : ini = p[1] /\ vault = p[2] /\ schema = p[3]
    /\ environ = EmptyEnv
    /\ stack = <<>>
    /\ result = Idle
    /\ probes = <<>>
    /\ loads = 0
    /\ started = ini
    /\ frames = <<>>
    /\ shown = <<>>

Frame(cls, prefix) == [cls |-> cls, i |-> 1, prefix |-> prefix, vals |-> <<>>]

Top == stack[Len(stack)]
TopFields == schema[Top.cls].fields
AtField == stack # <<>> /\ Top.i <= Len(TopFields)
Field == TopFields[Top.i]
LeafPath == Top.prefix \o <<Field.name>>

\* one lookup, as the log.debug line tells it (which key, where) and with
\* what came back
Probe(leaf, key, section, via, r) ==
    [leaf |-> leaf, key |-> key, section |-> section, via |-> via,
     ok |-> r.ok, val |-> r.val, err |-> r.err]

\* the exception leaves every _to_config activation; it came from the leaf
\* at, out of its lookup ("get") or out of its converter ("init")
Raised(err, at, in) ==
    [status |-> "raised", inst |-> <<>>, err |-> err, at |-> at, in |-> in]

\* vals[a.name] = val, and on to the next attribute
Stored(entry) ==
    [stack EXCEPT ![Len(stack)] = [@ EXCEPT !.i = @ + 1, !.vals = Append(@, entry)]]

\* to_config(config_cls, environ)
to_config ==
    /\ result.status # "running"
    /\ loads < MaxLoads
    /\ environ' \in Environs
    /\ stack' = <<Frame(1, <<>>)>>
    /\ result' = [Idle EXCEPT !.status = "running"]
    /\ probes' = <<>>
    /\ started' = ini
    /\ UNCHANGED <<ini, vault, schema, loads, frames, shown>>

\* _to_config, a leaf without callback: get = default_get
GetDefault ==
    /\ AtField
    /\ Field.ce.sub_cls = NoClass
    /\ Field.ce.callback = "None"
    /\ LET r == default_get(AppPrefix(schema[1]), environ, Field, Top.prefix)
       IN  /\ probes' = Append(probes, Probe(LeafPath, r.key, <<>>, "environ", r))
           /\ IF r.ok
              THEN /\ stack' = Stored(Entry(Field.name, r.val, <<>>))
                   /\ UNCHANGED result
              ELSE /\ stack' = <<>>
                   /\ result' = Raised(r.err, LeafPath, "get")
    /\ UNCHANGED <<ini, vault, schema, environ, loads, started, frames, shown>>

\* _to_config, a leaf whose callback is INISecrets._get
GetINI ==
    /\ AtField
    /\ Field.ce.sub_cls = NoClass
    /\ Field.ce.callback = "ini"
    /\ LET d == DelayedLoad(ini, Files, environ)
           r == INI_get(d.cfg, Field, Top.prefix)
           read == IF d.attempt
                   THEN <<Probe(LeafPath, ini.env_name.s, <<>>, "path",
                                [ok |-> d.ok, err |-> d.err,
                                 val |-> EnvGet(environ, ini.env_name.s, ini.env_default)])>>
                   ELSE <<>>
       IN  /\ loads' = IF d.attempt THEN loads + 1 ELSE loads
           /\ ini' = [ini EXCEPT !.cfg = d.cfg]
           /\ IF ~d.ok
              THEN /\ probes' = probes \o read
                   /\ stack' = <<>>
                   /\ result' = Raised(d.err, LeafPath, "get")
              ELSE /\ probes' = probes \o read
                                \o <<Probe(LeafPath, r.key, Field.section, "ini", r)>>
                   /\ IF r.ok
                      THEN /\ stack' = Stored(Entry(Field.name, r.val, <<>>))
                           /\ UNCHANGED result
                      ELSE /\ stack' = <<>>
                           /\ result' = Raised(r.err, LeafPath, "get")
    /\ UNCHANGED <<vault, schema, environ, started, frames, shown>>

\* _to_config, a leaf whose callback is VaultEnvSecrets._get
GetVault ==
    /\ AtField
    /\ Field.ce.sub_cls = NoClass
    /\ Field.ce.callback = "vault"
    /\ LET r == Vault_get(vault, environ, Field, Top.prefix)
       IN  /\ probes' = Append(probes, Probe(LeafPath, r.key, <<>>, "environ", r))
           /\ IF r.ok
              THEN /\ stack' = Stored(Entry(Field.name, r.val, <<>>))
                   /\ UNCHANGED result
              ELSE /\ stack' = <<>>
                   /\ result' = Raised(r.err, LeafPath, "get")
    /\ UNCHANGED <<ini, vault, schema, environ, loads, started, frames, shown>>

\* _to_config, a group: the recursive call, prefix + (a.name,)
EnterGroup ==
    /\ AtField
    /\ Field.ce.sub_cls # NoClass
    /\ stack' = Append(stack, Frame(Field.ce.sub_cls, Top.prefix \o <<Field.name>>))
    /\ UNCHANGED <<ini, vault, schema, environ, result, probes, loads, started, frames, shown>>

\* _to_config, after the loop: config_cls(**vals), whose converters may raise;
\* the instance goes to the caller (vals[a.name] of the group, or to_config)
Construct ==
    /\ stack # <<>>
    /\ Top.i > Len(TopFields)
    /\ LET bad == FirstBadConvert(TopFields, Top.vals)
           inst == Instance(TopFields, Top.vals)
           outer == SubSeq(stack, 1, Len(stack) - 1)
       IN  IF bad # 0
           THEN /\ stack' = <<>>
                /\ result' = Raised(Convert(TopFields[bad].converter, Top.vals[bad].v).err,
                                    Top.prefix \o <<TopFields[bad].name>>, "init")
           ELSE IF outer = <<>>
           THEN /\ stack' = <<>>
                /\ result' = [Idle EXCEPT !.status = "returned", !.inst = inst]
           ELSE /\ stack' = [outer EXCEPT ![Len(outer)] =
                                [@ EXCEPT !.i = @ + 1,
                                          !.vals = Append(@, Entry(Top.prefix[Len(Top.prefix)],
                                                                  None, inst))]]
                /\ UNCHANGED result
    /\ UNCHANGED <<ini, vault, schema, environ, probes, loads, started, frames, shown>>

Next == to_config \/ GetDefault \/ GetINI \/ GetVault \/ EnterGroup \/ Construct

Spec == Init /\ [][Next]_vars

(***************************************************************************)
(* The leaves' lookups taken in any order: the calls get(environ,          *)
(* a.metadata, prefix, a.name) of _to_config, each leaf once, none         *)
(* stopping the others.                                                    *)
(***************************************************************************)
RECURSIVE PathsFrom(_, _, _)
PathsFrom(c, i, prefix) ==
    IF i > Len(schema[c].fields) THEN {}
    ELSE LET f == schema[c].fields[i]
         IN  (IF f.ce.sub_cls = NoClass THEN {[path |-> prefix \o <<f.name>>, field |-> f]}
              ELSE PathsFrom(f.ce.sub_cls, 1, prefix \o <<f.name>>))
             \cup PathsFrom(c, i + 1, prefix)

BeginLookups ==
    /\ result.status # "running"
    /\ loads < MaxLoads
    /\ environ' \in Environs
    /\ result' = [Idle EXCEPT !.status = "running"]
    /\ probes' = <<>>
    /\ started' = ini
    /\ UNCHANGED <<ini, vault, schema, stack, loads, frames, shown>>

LookupInAnyOrder ==
    /\ result.status = "running"
    /\ \E l \in PathsFrom(1, 1, <<>>) :
        /\ \A i \in 1..Len(probes) : probes[i].leaf # l.path
        /\ LET prefix == SubSeq(l.path, 1, Len(l.path) - 1)
               d == DelayedLoad(ini, Files, environ)
               r == IF l.field.ce.callback = "ini" THEN INI_get(d.cfg, l.field, prefix)
                    ELSE IF l.field.ce.callback = "vault"
                        THEN Vault_get(vault, environ, l.field, prefix)
                    ELSE default_get(AppPrefix(schema[1]), environ, l.field, prefix)
           IN  IF l.field.ce.callback = "ini"
               THEN /\ loads' = IF d.attempt THEN loads + 1 ELSE loads
                    /\ ini' = [ini EXCEPT !.cfg = d.cfg]
                    /\ probes' = probes \o
                        (IF d.attempt
                         THEN <<Probe(l.path, ini.env_name.s, <<>>, "path",
                                      [ok |-> d.ok, err |-> d.err,
                                       val |-> EnvGet(environ, ini.env_name.s,
                                                      ini.env_default)])>>
                         ELSE <<>>)
                        \o (IF d.ok THEN <<Probe(l.path, r.key, l.field.section, "ini", r)>>
                            ELSE <<>>)
               ELSE /\ probes' = Append(probes, Probe(l.path, r.key, <<>>, "environ", r))
                    /\ UNCHANGED <<ini, loads>>
    /\ IF \A l \in PathsFrom(1, 1, <<>>) :
            \E i \in 1..Len(probes') : probes'[i].leaf = l.path
       THEN result' = [Idle EXCEPT !.status = "returned"]
       ELSE UNCHANGED result
    /\ UNCHANGED <<vault, schema, environ, stack, started, frames, shown>>

NextAnyOrder == BeginLookups \/ LookupInAnyOrder

SpecAnyOrder == Init /\ [][NextAnyOrder]_vars

(***************************************************************************)
(* repr(): _SecretStr.__repr__ looks at the names of the functions that    *)
(* called it.  frames holds the co_names of the Python frames of a call,   *)
(* outermost first; repr() itself is a builtin and has no frame.           *)
(***************************************************************************)
MaxCallers == 2

\* sys._getframe(depth), seen from the innermost frame of fr
GetFrame(fr, depth) ==
    IF depth < Len(fr) THEN [ok |-> TRUE, co_name |-> fr[Len(fr) - depth]]
    ELSE [ok |-> FALSE, co_name |-> ""]

Shown(kind, text) == [kind |-> kind, text |-> text]

\* _SecretStr.__repr__(self), fr ending with its own frame
SecretRepr(fr, self) ==
    LET one == GetFrame(fr, 1)
        two == GetFrame(fr, 2)
    IN  IF ~one.ok THEN Shown("ValueError", <<>>)
        ELSE IF one.co_name = "__repr__" THEN Shown("<SECRET>", <<>>)
        ELSE IF ~two.ok THEN Shown("ValueError", <<>>)
        ELSE IF two.co_name = "__repr__" THEN Shown("<SECRET>", <<>>)
        ELSE Shown("repr", self.s)

\* repr(v) called from the frames fr
Repr(fr, v) ==
    IF v.t = "_SecretStr" THEN SecretRepr(Append(fr, "__repr__"), v)
    ELSE Shown("repr", v.s)

\* the frames the __repr__ attrs generates runs in when it calls repr() on an
\* attribute: its own, and in some attrs versions a generator expression
AttrsFrames(genexpr) == IF genexpr THEN <<"__repr__", "<genexpr>">> ELSE <<"__repr__">>

\* repr(inst) of a config instance: each attribute's repr, by path
RECURSIVE ReprInstance(_, _, _, _)
ReprInstance(fr, inst, genexpr, prefix) ==
    IF inst = <<>> THEN <<>>
    ELSE LET e == inst[1]
             here == fr \o AttrsFrames(genexpr)
         IN  (IF e.sub # <<>> THEN ReprInstance(here, e.sub, genexpr, prefix \o <<e.name>>)
              ELSE <<[path |-> prefix \o <<e.name>>, shown |-> Repr(here, e.v)]>>)
             \o ReprInstance(fr, Tail(inst), genexpr, prefix)

\* the callers a repr() call can have: module code, plain functions, and the
\* __repr__ of some object
RECURSIVE CallersUpTo(_)
CallersUpTo(n) ==
    IF n = 0 THEN {<<"<module>">>}
    ELSE CallersUpTo(n - 1)
         \cup {Append(c, f) : c \in CallersUpTo(n - 1), f \in {"f", "__repr__"}}

\* an instance with the value v in x, next to a plain y, depth groups down
RECURSIVE InstanceWith(_, _)
InstanceWith(v, depth) ==
    IF depth = 0 THEN <<Entry(X, v, <<>>), Entry(Y, Str(Word), <<>>)>>
    ELSE <<Entry(Y, Str(One), <<>>), Entry(G, None, InstanceWith(v, depth - 1))>>

SecretTexts == {Word, One, NoneText}

InitRepr ==
    /\ ini = from_path(F1, Secrets)
    /\ vault = VaultEnvSecrets(<<"s">>, FALSE)
    /\ schema = <<>>
    /\ environ = EmptyEnv
    /\ stack = <<>>
    /\ \E s \in SecretTexts, depth \in 0..2 :
        result = [Idle EXCEPT !.status = "returned",
                              !.inst = InstanceWith(SecretStr(Str(s)), depth)]
    /\ probes = <<>>
    /\ loads = 0
    /\ started = ini
    /\ frames = <<>>
    /\ shown = <<>>

\* repr(cfg): the whole instance
ReprConfig ==
    /\ result.status = "returned"
    /\ \E fr \in CallersUpTo(MaxCallers), genexpr \in BOOLEAN :
        /\ frames' = fr
        /\ shown' = ReprInstance(fr, result.inst, genexpr, <<>>)
    /\ UNCHANGED <<ini, vault, schema, environ, stack, result, probes, loads, started>>

\* the secret in the instance, where x sits
RECURSIVE SecretIn(_)
SecretIn(inst) == IF inst[1].name = X THEN inst[1].v ELSE SecretIn(inst[2].sub)

\* repr(cfg....x): the secret value on its own
ReprSecret ==
    /\ result.status = "returned"
    /\ \E fr \in CallersUpTo(MaxCallers) :
        /\ frames' = fr
        /\ shown' = <<[path |-> <<>>, shown |-> Repr(fr, SecretIn(result.inst))]>>
    /\ UNCHANGED <<ini, vault, schema, environ, stack, result, probes, loads, started>>

NextRepr == ReprConfig \/ ReprSecret

SpecRepr == InitRepr /\ [][NextRepr]_vars

(***************************************************************************)
(* Reading a schema and an instance: the leaves in depth-first declaration *)
(* order (each named by its path: the groups above it, then its own name), *)
(* the attribute at a path, the value at a path.                           *)
(***************************************************************************)
RECURSIVE LeavesFrom(_, _, _)
LeavesFrom(c, i, prefix) ==
    IF i > Len(schema[c].fields) THEN <<>>
    ELSE LET f == schema[c].fields[i]
         IN  (IF f.ce.sub_cls = NoClass THEN <<prefix \o <<f.name>>>>
              ELSE LeavesFrom(f.ce.sub_cls, 1, prefix \o <<f.name>>))
             \o LeavesFrom(c, i + 1, prefix)

Leaves == LeavesFrom(1, 1, <<>>)

Named(fields, name) == CHOOSE i \in 1..Len(fields) : fields[i].name = name

RECURSIVE FieldAt(_, _)
FieldAt(c, path) ==
    LET f == schema[c].fields[Named(schema[c].fields, path[1])]
    IN  IF Len(path) = 1 THEN f ELSE FieldAt(f.ce.sub_cls, Tail(path))

LeafAt(path) == FieldAt(1, path)

RECURSIVE ValueAt(_, _)
ValueAt(inst, path) ==
    LET e == inst[Named(inst, path[1])]
    IN  IF Len(path) = 1 THEN e.v ELSE ValueAt(e.sub, Tail(path))

HasLeaf(path) == \E n \in 1..Len(Leaves) : Leaves[n] = path

Finished == result.status \in {"returned", "raised"}

\* the lookups of the pass that asked for a leaf's own key (not for the path
\* of the INI file)
KeyProbes == {i \in 1..Len(probes) : probes[i].via # "path"}

\* the key the naming convention gives the leaf at path under root prefix P
ConventionKey(P, path) == Upper(Join((IF P = <<>> THEN <<>> ELSE <<P>>) \o path))

\* the key a plain environment leaf is looked up by
EnvKeyOf(path) ==
    IF LeafAt(path).ce.name # None THEN LeafAt(path).ce.name.s
    ELSE ConventionKey(schema[1].prefix, path)

IsPlain(path) == LeafAt(path).ce.callback = "None"

(***************************************************************************)
(* C1: a plain environment leaf without explicit name is probed under      *)
(* exactly one key, the upper-cased underscore join of the root prefix     *)
(* (when not empty), its groups and its name; a nested class's own prefix  *)
(* adds nothing.                                                           *)
(***************************************************************************)
C1_DerivedEnvKey ==
    /\ \A i \in 1..Len(probes) :
        (IsPlain(probes[i].leaf) /\ LeafAt(probes[i].leaf).ce.name = None) =>
            /\ probes[i].key = ConventionKey(schema[1].prefix, probes[i].leaf)
            /\ \A j \in 1..Len(probes) : probes[j].leaf = probes[i].leaf => j = i
    /\ result.status = "returned" =>
        \A n \in 1..Len(Leaves) :
            IsPlain(Leaves[n]) => \E i \in 1..Len(probes) : probes[i].leaf = Leaves[n]

\* C1: a pass under root prefix AP returned, and the unnamed plain leaf y in
\* group h of group g was probed as AP_G_H_Y
C1_Witness ==
    /\ result.status = "returned"
    /\ schema[1].prefix = Ap
    /\ \E i \in 1..Len(probes) :
        /\ probes[i].leaf = <<G, H, Y>>
        /\ IsPlain(probes[i].leaf)
        /\ LeafAt(probes[i].leaf).ce.name = None
        /\ probes[i].key = <<"A", "P", "_", "G", "_", "H", "_", "Y">>

(***************************************************************************)
(* C2: a leaf with an explicit name N is looked up under exactly N by each *)
(* of the three providers: nothing prepended, case kept, and no other key  *)
(* tried for it.                                                           *)
(***************************************************************************)
C2_ExplicitNameVerbatim ==
    \A i \in KeyProbes :
        LeafAt(probes[i].leaf).ce.name # None =>
            /\ probes[i].key = LeafAt(probes[i].leaf).ce.name.s
            /\ \A j \in KeyProbes : probes[j].leaf = probes[i].leaf => j = i

\* C2: a pass returned in which a plain leaf at depth 0 and a secret leaf at
\* depth 2, both with the explicit name, were looked up by exactly that name
C2_Witness ==
    /\ result.status = "returned"
    /\ \E i, j \in KeyProbes :
        /\ probes[i].leaf = <<X>> /\ probes[j].leaf = <<G, H, Y>>
        /\ LeafAt(<<X>>).ce.callback = "None" /\ LeafAt(<<X>>).ce.name = Str(Nm)
        /\ LeafAt(<<G, H, Y>>).ce.callback \in {"ini", "vault"}
        /\ LeafAt(<<G, H, Y>>).ce.name = Str(Nm)
        /\ probes[i].key = Nm /\ probes[j].key = Nm

(***************************************************************************)
(* C3: in the instance to_config returns, a plain environment leaf whose   *)
(* key is in the environment holds its converter applied to the            *)
(* environment's string (the string itself without converter), whatever    *)
(* its default, RAISE included.                                            *)
(***************************************************************************)
C3_EnvironmentWins ==
    result.status = "returned" =>
        \A n \in 1..Len(Leaves) :
            (IsPlain(Leaves[n]) /\ EnvKeyOf(Leaves[n]) \in DOMAIN environ) =>
                ValueAt(result.inst, Leaves[n]) =
                    Convert(LeafAt(Leaves[n]).converter, environ[EnvKeyOf(Leaves[n])]).val

\* C3: a returned instance in which a plain leaf with default "" and converter
\* int holds the converted environment string
C3_Witness ==
    /\ result.status = "returned"
    /\ \E n \in 1..Len(Leaves) :
        /\ IsPlain(Leaves[n])
        /\ LeafAt(Leaves[n]).ce.default = Str(<<>>)
        /\ LeafAt(Leaves[n]).converter = "int"
        /\ EnvKeyOf(Leaves[n]) \in DOMAIN environ
        /\ ValueAt(result.inst, Leaves[n]) = IntOf(One)

\* a required plain environment leaf whose key the environment lacks
RequiredMissing(path) ==
    /\ IsPlain(path)
    /\ LeafAt(path).ce.default = RAISE
    /\ EnvKeyOf(path) \notin DOMAIN environ

(***************************************************************************)
(* C4 as claimed: whenever a required plain environment leaf has no value  *)
(* in the environment, to_config fails with the missing-value error        *)
(* carrying that leaf's key.  Stated for the schemas whose leaves all use   *)
(* the plain environment provider, where no other kind of failure can come *)
(* first.                                                                  *)
(***************************************************************************)
C4_AsClaimed ==
    (Finished /\ \A k \in 1..Len(Leaves) : IsPlain(Leaves[k])) =>
        \A n \in 1..Len(Leaves) :
            RequiredMissing(Leaves[n]) =>
                /\ result.status = "raised"
                /\ result.err = Error("MissingEnvValueError", EnvKeyOf(Leaves[n]))

(***************************************************************************)
(* C4 amended: a required plain environment leaf (default RAISE) whose key *)
(* the environment lacks keeps to_config from returning an instance; when  *)
(* the pass gets as far as that leaf's lookup it fails there, with the     *)
(* missing-value error carrying exactly that leaf's key, and nothing is    *)
(* looked up after it.  A default of None or of the empty string is a      *)
(* default: the lookup returns it.                                         *)
(***************************************************************************)
C4_RequiredMissingFails ==
    /\ Finished =>
        ((\E n \in 1..Len(Leaves) : RequiredMissing(Leaves[n])) => result.status = "raised")
    /\ \A i \in 1..Len(probes) :
        /\ RequiredMissing(probes[i].leaf) =>
            /\ result.status = "raised"
            /\ result.err = Error("MissingEnvValueError", EnvKeyOf(probes[i].leaf))
            /\ result.at = probes[i].leaf
            /\ i = Len(probes)
        /\ (/\ IsPlain(probes[i].leaf)
            /\ LeafAt(probes[i].leaf).ce.default \in {None, Str(<<>>)}
            /\ EnvKeyOf(probes[i].leaf) \notin DOMAIN environ) =>
                probes[i].ok /\ probes[i].val = LeafAt(probes[i].leaf).ce.default

\* C4: two required plain leaves are missing from the empty environment and
\* the pass failed with the key of the first, AP_G_X
C4_Witness ==
    /\ result.status = "raised"
    /\ environ = EmptyEnv
    /\ HasLeaf(<<G, X>>)
    /\ RequiredMissing(<<G, X>>)
    /\ schema[1].prefix = Ap
    /\ result.err = Error("MissingEnvValueError", <<"A", "P", "_", "G", "_", "X">>)
    /\ RequiredMissing(<<Y>>)

\* where a leaf stands in depth-first declaration order
Pos(path) == CHOOSE n \in 1..Len(Leaves) : Leaves[n] = path

\* the class a leaf is declared in, named by the groups that lead to it
ClassOf(path) == SubSeq(path, 1, Len(path) - 1)

Under(path, groups) ==
    Len(path) > Len(groups) /\ SubSeq(path, 1, Len(groups)) = groups

\* whether the converter of the leaf of probe i takes what the lookup gave
Converts(i) == Convert(LeafAt(probes[i].leaf).converter, probes[i].val).ok

(***************************************************************************)
(* C5 as claimed: a failing pass reports the first failing leaf of the     *)
(* depth-first declaration order (missing value, or a converter that       *)
(* raises on the raw value); no leaf after it is probed and no leaf before *)
(* it is a failing one.                                                    *)
(***************************************************************************)
C5_AsClaimed ==
    result.status = "raised" =>
        /\ \A i \in 1..Len(probes) : Pos(probes[i].leaf) <= Pos(result.at)
        /\ \A i \in KeyProbes :
            Pos(probes[i].leaf) < Pos(result.at) => probes[i].ok /\ Converts(i)

(***************************************************************************)
(* C5 amended: to_config aborts at the first failure in the order in which *)
(* it works.  Lookups run in depth-first declaration order, and a lookup   *)
(* that fails ends the pass: it is the last one made and the failure       *)
(* reported.  Converters run only when the instance of a class is built,   *)
(* after every leaf of that class and of its nested groups was looked up:  *)
(* a converter failure is reported for the first attribute of that class   *)
(* whose converter raises, all leaves of the class have been probed by     *)
(* then (also those declared after the failing one), and no leaf declared  *)
(* after the class has.                                                    *)
(***************************************************************************)
C5_FirstFailureInExecutionOrder ==
    /\ \A i \in 1..Len(probes) :
        /\ ~probes[i].ok => i = Len(probes) /\ result.status = "raised"
        /\ \A n \in 1..Len(Leaves) :
            n < Pos(probes[i].leaf) => \E j \in 1..i : probes[j].leaf = Leaves[n]
        /\ \A j \in 1..i : Pos(probes[j].leaf) <= Pos(probes[i].leaf)
    /\ (result.status = "raised" /\ result.in = "get") =>
        /\ probes # <<>>
        /\ ~probes[Len(probes)].ok
        /\ result.at = probes[Len(probes)].leaf
        /\ result.err = probes[Len(probes)].err
    /\ (result.status = "raised" /\ result.in = "init") =>
        /\ \A i \in 1..Len(probes) : probes[i].ok
        /\ \A n \in 1..Len(Leaves) :
            Under(Leaves[n], ClassOf(result.at)) =>
                \E i \in 1..Len(probes) : probes[i].leaf = Leaves[n]
        /\ Under(probes[Len(probes)].leaf, ClassOf(result.at))
        /\ \A i \in KeyProbes :
            /\ probes[i].leaf = result.at => ~Converts(i)
            /\ (/\ ClassOf(probes[i].leaf) = ClassOf(result.at)
                /\ Pos(probes[i].leaf) < Pos(result.at)) => Converts(i)

\* C5: building the instance failed on x's converter after y, declared after
\* x, had been looked up
C5_Witness ==
    /\ result.status = "raised"
    /\ result.in = "init"
    /\ result.at = <<X>>
    /\ \E i \in 1..Len(probes) : probes[i].leaf = <<Y>> /\ ~Converts(i)

\* every leaf of the schema declares a default
AllDefaults == \A n \in 1..Len(Leaves) : LeafAt(Leaves[n]).ce.default # RAISE

\* the option an INI leaf is looked up by, and what the provider's parsed
\* file holds for it
INIKeyOf(path) ==
    IF LeafAt(path).ce.name # None THEN LeafAt(path).ce.name.s ELSE Join(path)

InFile(cfg, section, key) ==
    {it \in cfg.items : it.section = section /\ it.option = Lower(key)}

(***************************************************************************)
(* C6 as claimed: when every leaf declares a default, to_config against    *)
(* the empty environment returns an instance in which every leaf equals    *)
(* its declared default, converter or secret provider or not.  Stated for  *)
(* the leaves of a VaultEnvSecrets provider that declare no converter, in  *)
(* the instances to_config returns.                                        *)
(***************************************************************************)
C6_AsClaimed ==
    (/\ result.status = "returned" /\ environ = EmptyEnv /\ AllDefaults) =>
        \A n \in 1..Len(Leaves) :
            (/\ LeafAt(Leaves[n]).ce.callback = "vault"
             /\ LeafAt(Leaves[n]).converter = "None") =>
                PyEq(ValueAt(result.inst, Leaves[n]), LeafAt(Leaves[n]).ce.default)

\* what a leaf's lookup gives when the environment is empty and the leaf has
\* a default
FromDefault(path) ==
    LET f == LeafAt(path)
        found == InFile(ini.cfg, f.section, INIKeyOf(path))
    IN  IF f.ce.callback = "vault" THEN SecretStr(f.ce.default)
        ELSE IF f.ce.callback = "ini" /\ found # {}
            THEN SecretStr(Str((CHOOSE it \in found : TRUE).value))
        ELSE f.ce.default

(***************************************************************************)
(* C6, what the code does: when every leaf declares a default and the      *)
(* environment is empty, an instance that to_config returns holds, for     *)
(* every leaf, the leaf's converter (if any) applied to: the declared      *)
(* default of a plain environment leaf; the secret-wrapped str() of the    *)
(* declared default of a VaultEnvSecrets leaf (None becomes the text       *)
(* None); for an INISecrets leaf the secret-wrapped option of the          *)
(* provider's file when the file has it, the declared default otherwise.   *)
(* to_config fails instead, never with a missing-value or missing-secret   *)
(* error, when a converter rejects that value, when the INI provider has   *)
(* no file to load, or when its file lacks the leaf's section.             *)
(***************************************************************************)
C6_DefaultsOnEmptyEnvironment ==
    (environ = EmptyEnv /\ AllDefaults) =>
        /\ result.status = "returned" =>
            \A n \in 1..Len(Leaves) :
                ValueAt(result.inst, Leaves[n]) =
                    Convert(LeafAt(Leaves[n]).converter, FromDefault(Leaves[n])).val
        /\ result.status = "raised" =>
            \/ /\ result.in = "init"
               /\ ~Convert(LeafAt(result.at).converter, FromDefault(result.at)).ok
            \/ /\ result.in = "get"
               /\ LeafAt(result.at).ce.callback = "ini"
               /\ \/ ~ini.cfg.loaded /\ result.err.type \in {"TypeError", "IOError"}
                  \/ /\ LeafAt(result.at).section \notin ini.cfg.sections
                     /\ result.err = Error("NoSectionError", LeafAt(result.at).section)

\* C6: a returned instance of an all-defaults schema, resolved against the
\* empty environment, whose vault leaf declared the default None
C6_Witness ==
    /\ result.status = "returned"
    /\ environ = EmptyEnv
    /\ AllDefaults
    /\ \E n \in 1..Len(Leaves) :
        /\ LeafAt(Leaves[n]).ce.callback = "vault"
        /\ LeafAt(Leaves[n]).ce.default = None
        /\ ValueAt(result.inst, Leaves[n]) = [t |-> "_SecretStr", s |-> NoneText]

(***************************************************************************)
(* C7 as claimed: over any sequence of lookups an INISecrets instance      *)
(* calls _load_ini at most once.                                           *)
(***************************************************************************)
C7_AsClaimed == loads <= 1

(***************************************************************************)
(* C7 amended: the file is loaded at most once successfully.  A lookup on  *)
(* an instance made by from_path_in_env that holds no parsed file reads    *)
(* the path variable and loads the file it names; once a load has          *)
(* succeeded, no later lookup, in this pass or a later one, loads again or *)
(* reads the path variable again, whatever file the environment then       *)
(* names.  A load that raises leaves the instance without a parsed file,   *)
(* so the next lookup reads the path variable and loads again.  An         *)
(* instance made by from_path never loads during a lookup.                 *)
(***************************************************************************)
C7_LoadedOnceThenCached ==
    [][/\ ini.cfg.loaded =>
            /\ ini' = ini
            /\ loads' = loads
            /\ \A i \in 1..Len(probes') :
                probes'[i].via = "path" => i <= Len(probes) /\ probes'[i] = probes[i]
       /\ ini.env_name = None => loads' = 0
       /\ (~ini.cfg.loaded /\ ini'.cfg.loaded) =>
            /\ loads' = loads + 1
            /\ ini'.cfg = ReadFile(Files[EnvGet(environ, ini.env_name.s, ini.env_default).s])
       /\ loads' # loads => (loads' = loads + 1 /\ ~ini.cfg.loaded)]_vars

\* C7: a provider made by from_path_in_env holds the parse of the first file
\* while a later pass, whose environment names another file, uses the cache
C7_Witness ==
    /\ ini.env_name # None
    /\ ini.cfg = ReadFile(File1)
    /\ loads = 1
    /\ IniPathVar \in DOMAIN environ
    /\ environ[IniPathVar] = Str(F2)
    /\ \E i \in 1..Len(probes) : probes[i].via = "ini" /\ probes[i].ok
    /\ \A i \in 1..Len(probes) : probes[i].via # "path"

(***************************************************************************)
(* C9 as claimed: an INISecrets leaf without explicit name is looked up by *)
(* the plain underscore join of its groups and its name in its section;    *)
(* the option's text comes back wrapped as a secret, and when the option   *)
(* or the whole section is absent the default does, or the missing-secret  *)
(* error with that key when the default is RAISE.                          *)
(***************************************************************************)
C9_AsClaimed ==
    \A i \in 1..Len(probes) :
        probes[i].via = "ini" =>
            LET f == LeafAt(probes[i].leaf)
                found == InFile(ini.cfg, f.section, INIKeyOf(probes[i].leaf))
            IN  /\ probes[i].key = INIKeyOf(probes[i].leaf)
                /\ probes[i].section = f.section
                /\ found # {} =>
                    /\ probes[i].ok
                    /\ probes[i].val = SecretStr(Str((CHOOSE it \in found : TRUE).value))
                /\ (found = {} /\ f.ce.default # RAISE) =>
                    probes[i].ok /\ probes[i].val = f.ce.default
                /\ (found = {} /\ f.ce.default = RAISE) =>
                    /\ ~probes[i].ok
                    /\ probes[i].err = Error("MissingSecretError", probes[i].key)

\* what the lookup of a leaf gives when it is the first one made in the pass:
\* from the environment and the provider as the pass found them
LookedUpFirst(path) ==
    LET f == LeafAt(path)
        d == DelayedLoad(started, Files, environ)
    IN  IF f.ce.callback = "ini"
        THEN IF d.ok THEN INI_get(d.cfg, f, ClassOf(path))
             ELSE [ok |-> FALSE, val |-> None, err |-> d.err, key |-> <<>>]
        ELSE IF f.ce.callback = "vault" THEN Vault_get(vault, environ, f, ClassOf(path))
        ELSE default_get(AppPrefix(schema[1]), environ, f, ClassOf(path))

\* the last thing the pass logged about a leaf: how its lookup ended
Outcome(path) ==
    probes[CHOOSE i \in 1..Len(probes) :
            /\ probes[i].leaf = path
            /\ \A j \in 1..Len(probes) : probes[j].leaf = path => j <= i]

OutsideAnyRepr == \A i \in 1..Len(frames) : frames[i] # "__repr__"

(***************************************************************************)
(* C8 as claimed: the repr of a whole instance shows <SECRET> for a secret *)
(* value at any depth and not its text; repr called on the secret value    *)
(* itself, outside any object's __repr__, shows its text; equality, str()  *)
(* and length are those of the text.                                       *)
(***************************************************************************)
C8_AsClaimed ==
    /\ \A i \in 1..Len(shown) :
        /\ (shown[i].path # <<>> /\ shown[i].path[Len(shown[i].path)] = X) =>
            shown[i].shown = Shown("<SECRET>", <<>>)
        /\ (shown[i].path = <<>> /\ OutsideAnyRepr) =>
            shown[i].shown = Shown("repr", SecretIn(result.inst).s)
    /\ result.status = "returned" =>
        /\ PyEq(SecretIn(result.inst), Str(SecretIn(result.inst).s))
        /\ IsStr(SecretIn(result.inst))
====
